---- MODULE Spec2Model ----
(***************************************************************************)
(* State-machine model of the authentication core of the contacts backend: *)
(* src/src/services/auth.py (TokenManager, PasswordManager),                *)
(* src/src/routes/auth.py (signup, login, refresh_token, confirmed_email)  *)
(* and src/src/repository/users.py (the users table).                      *)
(*                                                                         *)
(* Time is counted in whole seconds, the resolution of the JWT iat/exp     *)
(* claims.  A JWT is modelled by its claim set plus a flag telling whether *)
(* its signature was made with SECRET_KEY: HS256 is deterministic, so two  *)
(* tokens with the same claims are the same string.                        *)
(***************************************************************************)
EXTENDS Integers, Sequences, FiniteSets, TLC

(* ----------------------------- bounds ---------------------------------- *)

\* the clock advances at most this many times in a behaviour
MaxTicks == 2

\* tokens are issued for at most this many distinct (subject, second) pairs
MaxIssued == 2

\* the contacts table holds at most this many rows over time
MaxContacts == 2

\* request handlers that may be in flight at the same time
Procs == {1, 2}

\* the e-mail addresses the clients use
Emails == {"a@x.com", "b@x.com"}

\* the passwords clients sign up with, and those they try at login
SignupPasswords == {"pw123"}

Passwords == SignupPasswords \cup {"qwerty"}

(* ------------------------ program constants ---------------------------- *)

\* timedelta(minutes=15), in seconds
ACCESS_TOKEN_EXPIRE == 900

\* timedelta(days=7), in seconds
REFRESH_TOKEN_EXPIRE == 604800

\* timedelta(days=7), in seconds
EMAIL_TOKEN_EXPIRE == 604800

\* self.r.expire(f"user:{email}", 900)
CACHE_TTL == 900

(* --------------------------- Python None -------------------------------- *)

\* None where a str is expected
NoneStr == "None"

\* None where a token (str) is expected
NoToken == [sub |-> NoneStr, iat |-> 0, exp |-> 0, scope |-> NoneStr, sig |-> FALSE]

\* None where a User row is expected
NoUser ==
  [email |-> NoneStr, password |-> NoneStr, confirmed |-> FALSE,
   refresh_token |-> NoToken, avatar |-> NoneStr]

(* ------------------------------ clock ----------------------------------- *)

\* the amounts of time the clock advances by: one second, and the lifetimes
TimeSteps == {1, ACCESS_TOKEN_EXPIRE, REFRESH_TOKEN_EXPIRE}

\* the clock values reachable with at most MaxTicks advances
TimePoints ==
  {a + b * ACCESS_TOKEN_EXPIRE + c * REFRESH_TOKEN_EXPIRE :
     <<a, b, c>> \in {x \in (0..MaxTicks) \X (0..MaxTicks) \X (0..MaxTicks) :
                        x[1] + x[2] + x[3] <= MaxTicks}}

(* ---------------------------- passwords --------------------------------- *)

\* get_password_hash with the bug of storing the password as it is
get_password_hash_Plain(password) == password

\* pwd_context.hash: a bcrypt string, never the plaintext
get_password_hash(password) == "$2b$" \o password

\* pwd_context.verify with the bug of accepting every password
verify_password_Any(plain_password, hashed_password) == TRUE

\* pwd_context.verify
verify_password(plain_password, hashed_password) ==
  hashed_password = get_password_hash(plain_password)

(* ------------------------------ tokens ---------------------------------- *)

\* jwt.encode(to_encode, SECRET_KEY, algorithm=ALGORITHM)
JwtEncode(claims) ==
  [sub |-> claims.sub, iat |-> claims.iat, exp |-> claims.exp,
   scope |-> claims.scope, sig |-> TRUE]

\* JwtDecode with the bug of not verifying the expiry
JwtDecode_NoExpiry(token, t) ==
  IF ~token.sig THEN [ok |-> FALSE, payload |-> NoToken]
  ELSE [ok |-> TRUE, payload |-> token]

\* jwt.decode(token, SECRET_KEY, algorithms=[ALGORITHM]) at time t: JWTError on
\* a signature not made with SECRET_KEY and on exp < t (python-jose compares
\* whole seconds, so the token is still decoded during second exp itself)
JwtDecode(token, t) ==
  IF ~token.sig THEN [ok |-> FALSE, payload |-> NoToken]
  ELSE IF token.exp < t THEN [ok |-> FALSE, payload |-> NoToken]
  ELSE [ok |-> TRUE, payload |-> token]

create_access_token(sub, t) ==
  JwtEncode([sub |-> sub, iat |-> t, exp |-> t + ACCESS_TOKEN_EXPIRE,
             scope |-> "access_token"])

create_refresh_token(sub, t) ==
  JwtEncode([sub |-> sub, iat |-> t, exp |-> t + REFRESH_TOKEN_EXPIRE,
             scope |-> "refresh_token"])

create_email_token(sub, t) ==
  JwtEncode([sub |-> sub, iat |-> t, exp |-> t + EMAIL_TOKEN_EXPIRE,
             scope |-> "email_token"])

\* the outcome of a verifier: an email (ok) or the HTTPException it raises
Ok(email) == [ok |-> TRUE, email |-> email, status |-> 200, detail |-> ""]

Raise(status, detail) ==
  [ok |-> FALSE, email |-> NoneStr, status |-> status, detail |-> detail]

\* decode_access_token with the bug of not looking at the scope
decode_access_token_AnyScope(token, t) ==
  LET d == JwtDecode(token, t) IN
  IF ~d.ok THEN Raise(401, "Could not validate credentials")
  ELSE IF d.payload.sub = NoneStr
       THEN Raise(401, "Could not validate credentials")
       ELSE Ok(d.payload.sub)

\* the try block of get_current_user: the subject of an access token
decode_access_token(token, t) ==
  LET d == JwtDecode(token, t) IN
  IF ~d.ok THEN Raise(401, "Could not validate credentials")
  ELSE IF d.payload.scope = "access_token"
       THEN IF d.payload.sub = NoneStr
            THEN Raise(401, "Could not validate credentials")
            ELSE Ok(d.payload.sub)
       ELSE Raise(401, "Could not validate credentials")

\* decode_refresh_token with the bug of not looking at the scope
decode_refresh_token_AnyScope(token, t) ==
  LET d == JwtDecode(token, t) IN
  IF ~d.ok THEN Raise(401, "Could not validate credentials")
  ELSE Ok(d.payload.sub)

decode_refresh_token(token, t) ==
  LET d == JwtDecode(token, t) IN
  IF ~d.ok THEN Raise(401, "Could not validate credentials")
  ELSE IF d.payload.scope = "refresh_token" THEN Ok(d.payload.sub)
  ELSE Raise(401, "Invalid scope for token")

\* get_email_from_token with the bug of not looking at the scope
get_email_from_token_AnyScope(token, t) ==
  LET d == JwtDecode(token, t) IN
  IF ~d.ok THEN Raise(422, "Invalid token for email verification")
  ELSE Ok(d.payload.sub)

\* returns None (no raise) for a decodable token of another scope
get_email_from_token(token, t) ==
  LET d == JwtDecode(token, t) IN
  IF ~d.ok THEN Raise(422, "Invalid token for email verification")
  ELSE IF d.payload.scope = "email_token" THEN Ok(d.payload.sub)
  ELSE Ok(NoneStr)

(* ------------------------------- state ---------------------------------- *)

VARIABLES
  now,      \* datetime.utcnow(), in seconds
  db,       \* the users table: email -> User row, NoUser where there is none
  cache,    \* Redis: email -> the entry under key user:<email>
  issued,   \* the tokens the program has handed out (responses, e-mails)
  pc,       \* per handler: its position in the request it serves
  local,    \* per handler: the request and the handler's local variables
  last,     \* the request just completed and its response, until delivered
  race,     \* history: the refresh tokens of two logins that overlapped
  contacts  \* the contacts table: its rows and the next value of its id

vars == <<now, db, cache, issued, pc, local, last, race, contacts>>

\* the history variable: no handler reads it
hist == race

\* what the routes of /auth and /users leave alone
aside == <<hist, contacts>>

\* pickle.dumps(user) with the bug of pickling a user without its avatar
pickle_dumps_NoAvatar(user) ==
  [protocol |-> "pickle", state |-> [user EXCEPT !.avatar = NoneStr]]

\* pickle.dumps(user): the bytes that hold the loaded attributes of the row
pickle_dumps(user) == [protocol |-> "pickle", state |-> user]

\* pickle.loads(user): a detached User with the attributes the bytes hold
pickle_loads(bytes) == bytes.state

\* a key that does not exist in Redis
NoEntry ==
  [present |-> FALSE, value |-> pickle_dumps(NoUser), expire_at |-> 0,
   ttl |-> FALSE]

\* datetime.date
Date(year, month, day) == [year |-> year, month |-> month, day |-> day]

\* no date: the birthday None
NoDate == Date(0, 0, 0)

\* ContactModel: the fields of a contact that the routes read
Body(first_name, last_name, email, birthday, favorite) ==
  [first_name |-> first_name, last_name |-> last_name, email |-> email,
   birthday |-> birthday, favorite |-> favorite]

\* a request without a body
NoBody == Body(NoneStr, NoneStr, NoneStr, NoDate, FALSE)

\* no contact: what .first() returns when no row matches
NoContact ==
  [id |-> 0, first_name |-> NoneStr, last_name |-> NoneStr, email |-> NoneStr,
   birthday |-> NoDate, favorite |-> FALSE, user |-> NoneStr]

\* a handler's frame: the request (op, token, email, password, contact_id,
\* body, query, days, skip, limit), the locals user, access_token,
\* refresh_token, and today, the date the handler reads from the clock
NoLocal ==
  [op |-> "none", token |-> NoToken, email |-> NoneStr, password |-> NoneStr,
   user |-> NoUser, access_token |-> NoToken, refresh_token |-> NoToken,
   contact_id |-> 0, body |-> NoBody, query |-> NoneStr, days |-> 0,
   skip |-> 0, limit |-> 0, today |-> NoDate]

Request(op, token, email, password) ==
  [NoLocal EXCEPT !.op = op, !.token = token, !.email = email,
                  !.password = password]

\* a response: status and detail (or message), the body's fields, and the
\* recipient of the e-mail that the handler has scheduled as a background task
Response(status, detail) ==
  [status |-> status, detail |-> detail, access_token |-> NoToken,
   refresh_token |-> NoToken, user |-> NoUser, contact |-> NoContact,
   contacts |-> {}, mail |-> NoneStr]

\* an unhandled exception: the framework answers 500
Crash(exception) == Response(500, exception)

NoLast == [frame |-> NoLocal, response |-> Response(0, "")]

\* no two logins have overlapped yet
NoRace == [first |-> NoToken, second |-> NoToken]

\* tokens a client makes up itself: any claims, but no signature by SECRET_KEY
ForgedTokens ==
  {[sub |-> "a@x.com", iat |-> 0, exp |-> 2 * REFRESH_TOKEN_EXPIRE * (MaxTicks + 1),
    scope |-> s, sig |-> FALSE] :
     s \in {"access_token", "refresh_token", "email_token"}}

\* what a client can present as a token: one it was given, or one it made up
Presentable == issued \cup ForgedTokens

\* handing out new tokens stays within the bound
WithinBudget(tokens) ==
  Cardinality({<<t.sub, t.iat>> : t \in issued \cup tokens}) <= MaxIssued

\* the response of the request completed last has been delivered
Delivered == last = NoLast

\* a request is served by the first free handler
Free(p) == Delivered /\ pc[p] = "idle" /\ \A q \in Procs : q < p => pc[q] # "idle"

\* handler p is at position at of the request it serves
At(p, at) == Delivered /\ pc[p] = at

(* ----------------------------- repository ------------------------------- *)

\* db.query(User).filter_by(email=email).first()
get_user_by_email(email) == IF email \in Emails THEN db[email] ELSE NoUser

\* the model class User: a new row is unconfirmed and has no refresh token
User(email, password, avatar) ==
  [email |-> email, password |-> password, confirmed |-> FALSE,
   refresh_token |-> NoToken, avatar |-> avatar]

\* the row create_user inserts: User(**body.dict(), avatar=g.get_image())
NewUser(email, password) == User(email, password, "gravatar")

\* user.refresh_token = refresh_token; db.commit()
update_token(user, refresh_token) ==
  [db EXCEPT ![user.email].refresh_token = refresh_token]

\* confirmed_email with the bug of not committing the flag
confirmed_email_repo_NoCommit(email) == db

\* user = get_user_by_email(email); user.confirmed = True; db.commit()
confirmed_email_repo(email) == [db EXCEPT ![email].confirmed = TRUE]

(* ------------------------------- Init ----------------------------------- *)

Init ==
  /\ now = 0
  /\ db = [e \in Emails |-> NoUser]
  /\ cache = [e \in Emails |-> NoEntry]
  /\ issued = {}
  /\ pc = [p \in Procs |-> "idle"]
  /\ local = [p \in Procs |-> NoLocal]
  /\ last = NoLast
  /\ race = NoRace
  /\ contacts = [rows |-> {}, next_id |-> 1]

\* handler p, whose frame is f, sends response r and is free again
Finish(p, f, r) ==
  /\ pc' = [pc EXCEPT ![p] = "idle"]
  /\ local' = [local EXCEPT ![p] = NoLocal]
  /\ last' = [frame |-> f, response |-> r]

\* handler p goes on to position at with frame f
Goto(p, at, f) ==
  /\ pc' = [pc EXCEPT ![p] = at]
  /\ local' = [local EXCEPT ![p] = f]
  /\ UNCHANGED last

(* ------------------------------ signup ---------------------------------- *)

\* SignupOutcome with the bug of not looking for an existing account
SignupOutcome_NoLookup(email, password) ==
  LET new_user == NewUser(email, get_password_hash(password)) IN
  [create |-> TRUE, new_user |-> new_user,
   response |-> [Response(201, "") EXCEPT !.user = new_user]]

\* the body of signup: the conflict with an existing account, or the row to
\* insert, with the password replaced by its hash
SignupOutcome(email, password) ==
  LET exist_user == get_user_by_email(email)
      new_user == NewUser(email, get_password_hash(password))
  IN  IF exist_user # NoUser
      THEN [create |-> FALSE, new_user |-> NoUser,
            response |-> Response(409, "Account already exists")]
      ELSE [create |-> TRUE, new_user |-> new_user,
            response |-> [Response(201, "") EXCEPT !.user = new_user,
                                                   !.mail = email]]

\* POST /auth/signup; the background task send_email mails an email token
Signup(p, email, password) ==
  /\ Free(p)
  /\ LET f == Request("signup", NoToken, email, password)
         o == SignupOutcome(email, password)
     IN  IF ~o.create
         THEN /\ Finish(p, f, o.response)
              /\ UNCHANGED <<db, issued>>
         ELSE /\ WithinBudget({create_email_token(email, now)})
              /\ db' = [db EXCEPT ![email] = o.new_user]
              /\ issued' = issued \cup {create_email_token(email, now)}
              /\ Finish(p, f, o.response)
  /\ UNCHANGED <<now, cache, aside>>

\* the unique constraint on the email of the users table: the commit of a
\* second row with an email raises IntegrityError
UniqueEmailViolated(new_user) == get_user_by_email(new_user.email) # NoUser

\* POST /auth/signup up to the lookup (lines 32-35): the conflict, or the row
\* to insert with the password replaced by its hash
SignupRead(p, email, password) ==
  /\ Free(p)
  /\ LET f == Request("signup", NoToken, email, password)
         o == SignupOutcome(email, password)
     IN  IF ~o.create
         THEN Finish(p, f, o.response)
         ELSE Goto(p, "signup_create", [f EXCEPT !.user = o.new_user])
  /\ UNCHANGED <<now, db, cache, issued, aside>>

\* POST /auth/signup from create_user on (lines 36-38): db.add and db.commit,
\* whose IntegrityError no handler catches, then the background task
SignupCreate(p) ==
  /\ At(p, "signup_create")
  /\ LET new_user == local[p].user IN
     IF UniqueEmailViolated(new_user)
     THEN /\ Finish(p, local[p], Crash("IntegrityError"))
          /\ UNCHANGED <<db, issued>>
     ELSE /\ WithinBudget({create_email_token(new_user.email, now)})
          /\ db' = [db EXCEPT ![new_user.email] = new_user]
          /\ issued' = issued \cup {create_email_token(new_user.email, now)}
          /\ Finish(p, local[p], [Response(201, "") EXCEPT
                                    !.user = new_user, !.mail = new_user.email])
  /\ UNCHANGED <<now, cache, aside>>

(* -------------------------- confirmed_email ----------------------------- *)

\* GET /auth/confirmed_email/{token}
ConfirmedEmail(p, token) ==
  /\ Free(p)
  /\ LET v == get_email_from_token(token, now)
         user == get_user_by_email(v.email)
         f == [Request("confirmed_email", token, NoneStr, NoneStr)
                 EXCEPT !.user = user]
     IN  IF ~v.ok
         THEN /\ Finish(p, f, Response(v.status, v.detail))
              /\ UNCHANGED db
         ELSE IF user = NoUser
         THEN /\ Finish(p, f, Response(400, "Verification error"))
              /\ UNCHANGED db
         ELSE IF user.confirmed
         THEN /\ Finish(p, f, Response(200, "Your email is already confirmed"))
              /\ UNCHANGED db
         ELSE /\ db' = confirmed_email_repo(v.email)
              /\ Finish(p, f, Response(200, "Email confirmed"))
  /\ UNCHANGED <<now, cache, issued, aside>>

(* --------------------------- request_email ------------------------------ *)

\* RequestEmailOutcome with the bug of not looking at the confirmed flag
RequestEmailOutcome_NoConfirmedCheck(email) ==
  LET user == get_user_by_email(email) IN
  [Response(200, "Check your email for confirmation.") EXCEPT
     !.mail = IF user # NoUser THEN user.email ELSE NoneStr]

\* the body of request_email: the message, and the e-mail it schedules
RequestEmailOutcome(email) ==
  LET user == get_user_by_email(email) IN
  IF user # NoUser /\ user.confirmed
  THEN Response(200, "Your email is already confirmed")
  ELSE [Response(200, "Check your email for confirmation.") EXCEPT
          !.mail = IF user # NoUser THEN user.email ELSE NoneStr]

\* POST /auth/request_email; the background task send_email mails an email
\* token
RequestEmail(p, email) ==
  /\ Free(p)
  /\ LET f == Request("request_email", NoToken, email, NoneStr)
         r == RequestEmailOutcome(email)
     IN  IF r.mail = NoneStr
         THEN /\ Finish(p, f, r)
              /\ UNCHANGED issued
         ELSE /\ WithinBudget({create_email_token(r.mail, now)})
              /\ issued' = issued \cup {create_email_token(r.mail, now)}
              /\ Finish(p, f, r)
  /\ UNCHANGED <<now, db, cache, aside>>

(* ------------------------------- login ---------------------------------- *)

\* LoginDenial with the bug of not looking at the confirmed flag
LoginDenial_NoConfirmedCheck(user, password) ==
  IF user = NoUser THEN Response(401, "Invalid email")
  ELSE IF ~verify_password(password, user.password)
  THEN Response(401, "Invalid password")
  ELSE Response(200, "")

\* the three checks of login (lines 52-58): the exception raised, or 200 if
\* none is
LoginDenial(user, password) ==
  IF user = NoUser THEN Response(401, "Invalid email")
  ELSE IF ~user.confirmed THEN Response(401, "Email not confirmed")
  ELSE IF ~verify_password(password, user.password)
  THEN Response(401, "Invalid password")
  ELSE Response(200, "")

\* POST /auth/login, up to the creation of the tokens (lines 52-61)
LoginRead(p, email, password) ==
  /\ Free(p)
  /\ LET user == get_user_by_email(email)
         f == [Request("login", NoToken, email, password) EXCEPT !.user = user]
     IN  IF LoginDenial(user, password).status # 200
         THEN /\ Finish(p, f, LoginDenial(user, password))
              /\ UNCHANGED issued
         ELSE LET access_token == create_access_token(user.email, now)
                  refresh_token == create_refresh_token(user.email, now)
              IN  /\ WithinBudget({access_token, refresh_token})
                  /\ Goto(p, "login_write",
                          [f EXCEPT !.access_token = access_token,
                                    !.refresh_token = refresh_token])
                  /\ issued' = issued \cup {access_token, refresh_token}
  /\ UNCHANGED <<now, db, cache, aside>>

\* the login served by q has loaded the user that the login served by p is
\* about to write, and has not written yet: q's write will come last
Overlaps(p, q) ==
  /\ pc[q] = "login_write"
  /\ local[q].user.email = local[p].user.email

\* POST /auth/login, update_token and the return (lines 62-63)
LoginWrite(p) ==
  /\ At(p, "login_write")
  /\ db' = update_token(local[p].user, local[p].refresh_token)
  /\ race' = IF \E q \in Procs \ {p} : Overlaps(p, q)
             THEN LET q == CHOOSE q \in Procs \ {p} : Overlaps(p, q)
                  IN  [first |-> local[p].refresh_token,
                       second |-> local[q].refresh_token]
             ELSE race
  /\ Finish(p, local[p],
            [Response(200, "bearer") EXCEPT
               !.access_token = local[p].access_token,
               !.refresh_token = local[p].refresh_token])
  /\ UNCHANGED <<now, cache, issued, contacts>>

(* --------------------------- refresh_token ------------------------------ *)

\* GET /auth/refresh_token, up to the load of the user (lines 78-80)
RefreshRead(p, token) ==
  /\ Free(p)
  /\ LET v == decode_refresh_token(token, now)
         f == Request("refresh_token", token, v.email, NoneStr)
     IN  IF ~v.ok
         THEN Finish(p, f, Response(v.status, v.detail))
         ELSE Goto(p, "refresh_check",
                   [f EXCEPT !.user = get_user_by_email(v.email)])
  /\ UNCHANGED <<now, db, cache, issued, aside>>

\* RefreshOutcome with the bug of not comparing the token with the stored one
RefreshOutcome_NoCompare(user, token, t) ==
  IF user = NoUser
  THEN [write |-> FALSE, value |-> NoToken, response |-> Crash("AttributeError")]
  ELSE [write |-> FALSE, value |-> NoToken, response |-> Crash("TypeError")]

\* RefreshOutcome with the bug of not clearing the stored token on a mismatch
RefreshOutcome_NoClear(user, token, t) ==
  IF user = NoUser
  THEN [write |-> FALSE, value |-> NoToken, response |-> Crash("AttributeError")]
  ELSE IF user.refresh_token # token
  THEN [write |-> FALSE, value |-> NoToken,
        response |-> Response(401, "Invalid refresh token")]
  ELSE [write |-> FALSE, value |-> NoToken, response |-> Crash("TypeError")]

\* the outcome of lines 81-87 for the loaded user and the presented token:
\* the value update_token stores (write), and the response.  Line 85 calls
\* decode_refresh_token(data=...), a keyword the method does not have: the
\* call raises TypeError before line 86 is reached.
RefreshOutcome(user, token, t) ==
  IF user = NoUser
  THEN [write |-> FALSE, value |-> NoToken, response |-> Crash("AttributeError")]
  ELSE IF user.refresh_token # token
  THEN [write |-> TRUE, value |-> NoToken,
        response |-> Response(401, "Invalid refresh token")]
  ELSE [write |-> FALSE, value |-> NoToken, response |-> Crash("TypeError")]

\* GET /auth/refresh_token, the comparison and what follows (lines 81-87)
RefreshCheck(p) ==
  /\ At(p, "refresh_check")
  /\ LET o == RefreshOutcome(local[p].user, local[p].token, now) IN
     /\ db' = IF o.write THEN update_token(local[p].user, o.value) ELSE db
     /\ Finish(p, local[p], o.response)
  /\ UNCHANGED <<now, cache, issued, aside>>

\* the response of GET /auth/refresh_token to a token in the current state,
\* when the request is served without another one in between (lines 78-87)
RefreshResponse(token) ==
  LET v == decode_refresh_token(token, now) IN
  IF ~v.ok THEN Response(v.status, v.detail)
  ELSE RefreshOutcome(get_user_by_email(v.email), token, now).response

(* -------------------------- get_current_user ---------------------------- *)

\* self.r.get with the bug of never finding the key
CacheGet_AlwaysMiss(email) == NoEntry

\* self.r.get(f"user:{email}"): the pickled user, NoEntry for a missing key
CacheGet(email) == cache[email]

\* get_current_user as the dependency of GET /users/me/: the token check and
\* the cache read (lines 105-128, 134-139).  A Redis call that fails raises.
GetCurrentUser(p, token) ==
  /\ Free(p)
  /\ LET v == decode_access_token(token, now)
         f == Request("get_current_user", token, v.email, NoneStr)
     IN  IF ~v.ok
         THEN Finish(p, f, Response(v.status, v.detail))
         ELSE \E redis_fails \in BOOLEAN :
                IF redis_fails
                THEN Finish(p, f, Crash("redis.ConnectionError"))
                ELSE IF CacheGet(v.email).present
                THEN Finish(p, f, [Response(200, "") EXCEPT
                                     !.user = pickle_loads(CacheGet(v.email).value)])
                ELSE Goto(p, "gcu_db", f)
  /\ UNCHANGED <<now, db, cache, issued, aside>>

\* the cache miss: the load from the database and self.r.set (lines 129-132)
GetCurrentUserDb(p) ==
  /\ At(p, "gcu_db")
  /\ LET user == get_user_by_email(local[p].email)
         f == [local[p] EXCEPT !.user = user]
     IN  IF user = NoUser
         THEN /\ Finish(p, f, Response(401, "Could not validate credentials"))
              /\ UNCHANGED cache
         ELSE \E redis_fails \in BOOLEAN :
                IF redis_fails
                THEN /\ Finish(p, f, Crash("redis.ConnectionError"))
                     /\ UNCHANGED cache
                ELSE /\ cache' = [cache EXCEPT ![user.email] =
                                    [present |-> TRUE, value |-> pickle_dumps(user),
                                     expire_at |-> 0, ttl |-> FALSE]]
                     /\ Goto(p, "gcu_expire", f)
  /\ UNCHANGED <<now, db, issued, aside>>

\* self.r.expire(f"user:{email}", 900) and the return (lines 133, 137-139)
GetCurrentUserExpire(p) ==
  /\ At(p, "gcu_expire")
  /\ LET user == local[p].user IN
     \E redis_fails \in BOOLEAN :
       IF redis_fails
       THEN /\ Finish(p, local[p], Crash("redis.ConnectionError"))
            /\ UNCHANGED cache
       ELSE /\ cache' = [cache EXCEPT ![user.email] =
                           IF @.present
                           THEN [@ EXCEPT !.expire_at = now + CACHE_TTL, !.ttl = TRUE]
                           ELSE @]
            /\ Finish(p, local[p], [Response(200, "") EXCEPT !.user = user])
  /\ UNCHANGED <<now, db, issued, aside>>

(* ---------------------------- update_avatar ---------------------------- *)

\* CloudImage.generate_name_avatar: "Web16/" and 12 hex digits of the SHA-256
\* of the email (the email stands for its digest)
generate_name_avatar(email) == "Web16/" \o email

\* CloudImage.get_url_for_avatar: the URL of the public id at the version the
\* upload returned
get_url_for_avatar(public_id, version) == public_id \o "?v=" \o ToString(version)

\* the version cloudinary.uploader.upload returns: Cloudinary numbers the
\* versions of an image by the time of the upload, in seconds
Versions == {now}

\* update_avatar: user.avatar = url; db.commit()
update_avatar(email, url) == [db EXCEPT ![email].avatar = url]

\* AvatarOutcome with the bug of writing back the user that get_current_user
\* returned instead of the row read by update_avatar
AvatarOutcome_FromCurrentUser(current_user, url) ==
  LET user == get_user_by_email(current_user.email) IN
  IF user = NoUser
  THEN [db |-> db, cache |-> cache, response |-> Crash("AttributeError")]
  ELSE LET row == [current_user EXCEPT !.avatar = url] IN
       [db |-> [db EXCEPT ![current_user.email] = row], cache |-> cache,
        response |-> [Response(200, "") EXCEPT !.user = row]]

\* AvatarOutcome with the change of dropping the user's key from Redis
AvatarOutcome_Invalidate(current_user, url) ==
  LET user == get_user_by_email(current_user.email) IN
  IF user = NoUser
  THEN [db |-> db, cache |-> cache, response |-> Crash("AttributeError")]
  ELSE [db |-> update_avatar(current_user.email, url),
        cache |-> [cache EXCEPT ![current_user.email] = NoEntry],
        response |-> [Response(200, "") EXCEPT
                        !.user = update_avatar(current_user.email, url)
                                   [current_user.email]]]

\* repository update_avatar for the user get_current_user returned: the row
\* is read by email and its avatar set; Redis is not touched
AvatarOutcome(current_user, url) ==
  LET user == get_user_by_email(current_user.email) IN
  IF user = NoUser
  THEN [db |-> db, cache |-> cache, response |-> Crash("AttributeError")]
  ELSE [db |-> update_avatar(current_user.email, url), cache |-> cache,
        response |-> [Response(200, "") EXCEPT
                        !.user = update_avatar(current_user.email, url)
                                   [current_user.email]]]

\* the dependency get_current_user of a protected route has returned a user
Authenticated ==
  last.frame.op = "get_current_user" /\ last.response.status = 200

\* PATCH /users/avatar, after its dependency get_current_user: the upload to
\* Cloudinary, which may raise, and update_avatar
UpdateAvatarUser(version) ==
  /\ Authenticated
  /\ LET current_user == last.response.user
         url == get_url_for_avatar(generate_name_avatar(current_user.email),
                                   version)
         f == [last.frame EXCEPT !.op = "update_avatar",
                                 !.user = current_user]
     IN  \E upload_fails \in BOOLEAN :
           IF upload_fails
           THEN /\ last' = [frame |-> f, response |-> Crash("cloudinary.Error")]
                /\ UNCHANGED <<db, cache>>
           ELSE /\ db' = AvatarOutcome(current_user, url).db
                /\ cache' = AvatarOutcome(current_user, url).cache
                /\ last' = [frame |-> f,
                            response |-> AvatarOutcome(current_user, url).response]
  /\ UNCHANGED <<now, issued, pc, local, aside>>

(* ------------------------------ contacts -------------------------------- *)

\* the emails a client gives its contacts
ContactEmails == {"c@x.com", "d@x.com"}

\* the bodies a client sends: two contacts with each email, with birthdays at
\* the end and at the start of a year, on 29 February, and without one
ContactBodies ==
  {Body("Ann", "Lee", "c@x.com", Date(1990, 12, 31), FALSE),
   Body("Bob", "Kane", "d@x.com", Date(1985, 1, 2), TRUE),
   Body("Cy", "Lee", "c@x.com", Date(2000, 2, 29), FALSE),
   Body(" ", " ", "d@x.com", NoDate, FALSE)}

\* the contact ids a client asks for: those the table can hold, and one more
ContactIds == 1 .. (MaxContacts + 1)

\* the role sets of the routes (RoleAccess)
allowed_operation_get == {"admin", "moderator", "user"}

allowed_operation_create == {"admin", "moderator", "user"}

\* the role set of GET /contacts/all with the bug of allowing every role
allowed_operation_update_Everyone == {"admin", "moderator", "user"}

allowed_operation_update == {"admin", "moderator"}

\* the role set declared for removals; no route depends on it
allowed_operation_remove == {"admin"}

\* the role of an identity, a column no route writes: the operator of the
\* service has made one identity a moderator, the others have role user
Role(user) == IF user.email = "a@x.com" THEN "moderator" ELSE "user"

\* RoleAccess(allowed_roles): the identity's role is one of the allowed ones
RoleAccess(allowed_roles, user) == Role(user) \in allowed_roles

\* .first(): the matching row with the least id, None without a match
First(found) ==
  IF found = {} THEN NoContact
  ELSE CHOOSE c \in found : \A d \in found : c.id <= d.id

\* get_contact_by_id with the bug of not filtering by the owner
get_contact_by_id_AnyOwner(contact_id, user) ==
  First({c \in contacts.rows : c.id = contact_id})

\* db.query(Contact).filter_by(id=contact_id, user=user).first()
get_contact_by_id(contact_id, user) ==
  First({c \in contacts.rows : c.id = contact_id /\ c.user = user.email})

\* get_contact_by_email with the bug of not filtering by the owner
get_contact_by_email_AnyOwner(email, user) ==
  First({c \in contacts.rows : c.email = email})

\* db.query(Contact).filter_by(email=email, user=user).first()
get_contact_by_email(email, user) ==
  First({c \in contacts.rows : c.email = email /\ c.user = user.email})

\* the row that create inserts
NewContact(body, user) ==
  [id |-> contacts.next_id, first_name |-> body.first_name,
   last_name |-> body.last_name, email |-> body.email,
   birthday |-> body.birthday, favorite |-> body.favorite, user |-> user.email]

\* contact.first_name = body.first_name, ... (update, lines 121-127)
SetFields(contact, body) ==
  [contact EXCEPT !.first_name = body.first_name, !.last_name = body.last_name,
                  !.email = body.email, !.birthday = body.birthday,
                  !.favorite = body.favorite]

\* the constraints of the contacts table that an insert by create can break
\* (IntegrityError): none
IntegrityError(row) == FALSE

\* create: db.add(contact); db.commit()
create(body, user) ==
  [rows |-> contacts.rows \cup {NewContact(body, user)},
   next_id |-> contacts.next_id + 1]

\* update: the fields of the caller's contact are set from the body
update(contact_id, body, user) ==
  LET contact == get_contact_by_id(contact_id, user) IN
  IF contact = NoContact THEN contacts
  ELSE [contacts EXCEPT !.rows = (@ \ {contact})
                                   \cup {SetFields(contact, body)}]

\* delete: db.delete(contact); db.commit()
delete(contact_id, user) ==
  LET contact == get_contact_by_id(contact_id, user) IN
  IF contact = NoContact THEN contacts
  ELSE [contacts EXCEPT !.rows = @ \ {contact}]

\* the frame of a contacts route whose dependencies have returned
ContactRequest(op, contact_id, body) ==
  [last.frame EXCEPT !.op = op, !.user = last.response.user,
                     !.contact_id = contact_id, !.body = body]

\* a contacts route answers
Answer(f, r) ==
  /\ last' = [frame |-> f, response |-> r]
  /\ UNCHANGED <<now, db, cache, issued, pc, local, race>>

\* RoleAccess has refused the identity
Forbidden == Response(403, "Operation forbidden")

\* POST /contacts, after its dependencies (role, rate limit, get_current_user)
CreateContact(body) ==
  /\ Authenticated
  /\ LET current_user == last.response.user
         f == ContactRequest("create_contact", 0, body)
         contact == get_contact_by_email(body.email, current_user)
         row == NewContact(body, current_user)
     IN  IF ~RoleAccess(allowed_operation_create, current_user)
         THEN Answer(f, Forbidden) /\ UNCHANGED contacts
         ELSE IF contact # NoContact
         THEN Answer(f, Response(409, "Email is exist!")) /\ UNCHANGED contacts
         ELSE /\ contacts.next_id <= MaxContacts
              /\ IF IntegrityError(row)
                 THEN Answer(f, Crash("AttributeError")) /\ UNCHANGED contacts
                 ELSE /\ contacts' = create(body, current_user)
                      /\ Answer(f, [Response(201, "") EXCEPT !.contact = row])

\* GET /contacts/{contact_id}
GetContact(contact_id) ==
  /\ Authenticated
  /\ LET current_user == last.response.user
         f == ContactRequest("get_contact", contact_id, NoBody)
         contact == get_contact_by_id(contact_id, current_user)
     IN  IF ~RoleAccess(allowed_operation_get, current_user)
         THEN Answer(f, Forbidden)
         ELSE IF contact = NoContact
         THEN Answer(f, Response(404, "Not found"))
         ELSE Answer(f, [Response(200, "") EXCEPT !.contact = contact])
  /\ UNCHANGED contacts

\* PUT /contacts/{contact_id}
UpdateContact(contact_id, body) ==
  /\ Authenticated
  /\ LET current_user == last.response.user
         f == ContactRequest("update_contact", contact_id, body)
         contact == get_contact_by_id(contact_id, current_user)
     IN  IF ~RoleAccess(allowed_operation_get, current_user)
         THEN Answer(f, Forbidden) /\ UNCHANGED contacts
         ELSE IF contact = NoContact
         THEN Answer(f, Response(404, "Not found")) /\ UNCHANGED contacts
         ELSE /\ contacts' = update(contact_id, body, current_user)
              /\ Answer(f, [Response(200, "") EXCEPT
                              !.contact = SetFields(contact, body)])

\* DELETE /contacts/{contact_id}
RemoveContact(contact_id) ==
  /\ Authenticated
  /\ LET current_user == last.response.user
         f == ContactRequest("remove_contact", contact_id, NoBody)
         contact == get_contact_by_id(contact_id, current_user)
     IN  IF ~RoleAccess(allowed_operation_get, current_user)
         THEN Answer(f, Forbidden) /\ UNCHANGED contacts
         ELSE IF contact = NoContact
         THEN Answer(f, Response(404, "Not found")) /\ UNCHANGED contacts
         ELSE /\ contacts' = delete(contact_id, current_user)
              /\ Answer(f, Response(204, ""))

\* the skip and limit of a list request: limit is at least 10, and 10 if the
\* client gives none
Skips == {0, 1}

Limits == {10}

\* the favorite of a list request: None matches every row, a Boolean the rows
\* with that value
FavoriteFilters == {BOOLEAN, {TRUE}, {FALSE}}

\* the number of rows of found that .offset(skip).limit(limit) returns
PageSize(found, skip, limit) ==
  LET rest == IF Cardinality(found) > skip THEN Cardinality(found) - skip ELSE 0
  IN  IF rest > limit THEN limit ELSE rest

\* query.offset(skip).limit(limit).all(): the query has no ORDER BY, so the
\* database may return its rows in any order and any of them may be skipped
Pages(found, skip, limit) ==
  {page \in SUBSET found : Cardinality(page) = PageSize(found, skip, limit)}

\* get_contacts with the bug of not filtering by the owner
get_contacts_AnyOwner(skip, limit, user, favorite) ==
  Pages({c \in contacts.rows : c.favorite \in favorite}, skip, limit)

\* get_contacts: the pages the query of the caller's contacts can return
get_contacts(skip, limit, user, favorite) ==
  Pages({c \in contacts.rows : c.user = user.email /\ c.favorite \in favorite},
        skip, limit)

\* get_all_contacts: the pages the query of everybody's contacts can return
get_all_contacts(skip, limit, favorite) ==
  Pages({c \in contacts.rows : c.favorite \in favorite}, skip, limit)

\* the frame of a contacts route that lists contacts
ListRequest(op, skip, limit) ==
  [ContactRequest(op, 0, NoBody) EXCEPT !.skip = skip, !.limit = limit]

\* GET /contacts/all
GetAllContact(skip, limit, favorite) ==
  /\ Authenticated
  /\ LET current_user == last.response.user
         f == ListRequest("get_all_contact", skip, limit)
     IN  IF ~RoleAccess(allowed_operation_update, current_user)
         THEN Answer(f, Forbidden)
         ELSE \E page \in get_all_contacts(skip, limit, favorite) :
                Answer(f, [Response(200, "") EXCEPT !.contacts = page])
  /\ UNCHANGED contacts

\* GET /contacts
GetContacts(skip, limit, favorite) ==
  /\ Authenticated
  /\ LET current_user == last.response.user
         f == ListRequest("get_contacts", skip, limit)
     IN  IF ~RoleAccess(allowed_operation_get, current_user)
         THEN Answer(f, Forbidden)
         ELSE \E page \in get_contacts(skip, limit, current_user, favorite) :
                Answer(f, [Response(200, "") EXCEPT !.contacts = page])
  /\ UNCHANGED contacts

\* PATCH /contacts/contact_id/favorite: the path of the route has no
\* parameter, so contact_id: int = Path(ge=1) is missing from every request;
\* the validation of the request answers 422 before the body of the route
\* runs, after the dependencies of the route have answered
FavoriteUpdate(body) ==
  /\ Authenticated
  /\ LET current_user == last.response.user
         f == ContactRequest("favorite_update", 0, body)
     IN  IF ~RoleAccess(allowed_operation_update, current_user)
         THEN Answer(f, Forbidden)
         ELSE Answer(f, Response(422, "field required"))
  /\ UNCHANGED contacts

(* ------------------------------- search --------------------------------- *)

\* the strings a client searches for
Queries == {"lee", "AN", "x.com", "zz"}

UpperCase == "ABCDEFGHIJKLMNOPQRSTUVWXYZ"

LowerCase == "abcdefghijklmnopqrstuvwxyz"

\* lower() of one character
LowerChar(c) ==
  IF \E i \in 1 .. Len(UpperCase) : SubSeq(UpperCase, i, i) = c
  THEN LET i == CHOOSE i \in 1 .. Len(UpperCase) : SubSeq(UpperCase, i, i) = c
       IN  SubSeq(LowerCase, i, i)
  ELSE c

\* func.lower
RECURSIVE Lower(_)
Lower(s) ==
  IF Len(s) = 0 THEN ""
  ELSE LowerChar(SubSeq(s, 1, 1)) \o Lower(SubSeq(s, 2, Len(s)))

\* column.contains(q): q is a substring of s
Contains(s, q) ==
  \E i \in 1 .. (Len(s) - Len(q) + 1) : SubSeq(s, i, i + Len(q) - 1) = q

\* the three columns that search_contacts looks into
Matches(c, query) ==
  \/ Contains(Lower(c.first_name), Lower(query))
  \/ Contains(Lower(c.last_name), Lower(query))
  \/ Contains(Lower(c.email), Lower(query))

\* search_contacts: the caller's contacts whose first name, last name or email
\* contains the query, whatever the case of the letters
search_contacts(query, user) ==
  {c \in contacts.rows : c.user = user.email /\ Matches(c, query)}

\* GET /contacts/search_by/{query}
SearchBy(query) ==
  /\ Authenticated
  /\ LET current_user == last.response.user
         f == [ContactRequest("search_by", 0, NoBody) EXCEPT !.query = query]
         found == search_contacts(query, current_user)
     IN  IF ~RoleAccess(allowed_operation_get, current_user)
         THEN Answer(f, Forbidden)
         ELSE IF found = {}
         THEN Answer(f, Response(404, "Contact Not Found"))
         ELSE Answer(f, [Response(200, "") EXCEPT !.contacts = found])
  /\ UNCHANGED contacts

(* ------------------------------ birthdays ------------------------------- *)

\* the dates on which a birthday search is made: two days before the end of a
\* common year, and two days before 29 February of a leap year
Todays == {Date(2026, 12, 30), Date(2028, 2, 27)}

\* the days of a birthday search: 1 to 30, and 7 if the client gives none
DaysParams == {1, 7}

\* the limit of a birthday search: 1 to 30, and 10 if the client gives none
BirthdayLimits == {1, 10}

\* calendar.isleap
IsLeap(year) == (year % 4 = 0 /\ year % 100 # 0) \/ year % 400 = 0

DaysInMonth(year, month) ==
  IF month = 2 THEN (IF IsLeap(year) THEN 29 ELSE 28)
  ELSE IF month \in {4, 6, 9, 11} THEN 30 ELSE 31

\* the days of the year before the first of month
RECURSIVE DaysBeforeMonth(_, _)
DaysBeforeMonth(year, month) ==
  IF month = 1 THEN 0
  ELSE DaysBeforeMonth(year, month - 1) + DaysInMonth(year, month - 1)

\* the days before 1 January of year
DaysBeforeYear(year) ==
  LET y == year - 1 IN y * 365 + (y \div 4) - (y \div 100) + (y \div 400)

\* date.toordinal()
toordinal(d) == DaysBeforeYear(d.year) + DaysBeforeMonth(d.year, d.month) + d.day

\* the date exists in the calendar
IsDate(d) == d.month \in 1 .. 12 /\ d.day \in 1 .. DaysInMonth(d.year, d.month)

\* birthday.replace(year=now.year) raises ValueError: 29 February of a year
\* that has none
ReplaceRaises(birthday, year) == ~IsDate(Date(year, birthday.month, birthday.day))

\* (birthday.replace(year=now.year) - now).days
days_until_birthday(birthday, today) ==
  toordinal(Date(today.year, birthday.month, birthday.day)) - toordinal(today)

\* the loop of search_birthday over the rows of a page: the contacts whose
\* birthday of this year is 0 to days days away, or the ValueError
BirthdayLoop(page, days, today) ==
  IF \E c \in page : c.birthday # NoDate /\ ReplaceRaises(c.birthday, today.year)
  THEN [raised |-> TRUE, contacts |-> {}]
  ELSE [raised |-> FALSE,
        contacts |-> {c \in page :
                        /\ c.birthday # NoDate
                        /\ days_until_birthday(c.birthday, today) \in 0 .. days}]

\* search_birthday: range(days + 1) is 0 .. days; the outcomes that the pages
\* of the caller's contacts can give
search_birthday(days, skip, limit, user, today) ==
  {BirthdayLoop(page, days, today) :
     page \in Pages({c \in contacts.rows : c.user = user.email}, skip, limit)}

\* GET /contacts/search/birthdays; today is datetime.now().date()
SearchBirthdays(days, skip, limit, today) ==
  /\ Authenticated
  /\ LET current_user == last.response.user
         f == [ListRequest("search_birthdays", skip, limit) EXCEPT
                 !.days = days, !.today = today]
     IN  IF ~RoleAccess(allowed_operation_get, current_user)
         THEN Answer(f, Forbidden)
         ELSE \E o \in search_birthday(days, skip, limit, current_user, today) :
                IF o.raised
                THEN Answer(f, Crash("ValueError"))
                ELSE IF o.contacts = {}
                THEN Answer(f, Response(404, "No contacts found"))
                ELSE Answer(f, [Response(200, "") EXCEPT !.contacts = o.contacts])
  /\ UNCHANGED contacts

(* ---------------------- the cache helpers of users ---------------------- *)

\* bytes under a key that no pickle.dumps wrote: pickle.loads raises on them
Garbage == [protocol |-> "garbage", state |-> NoUser]

\* the users the helpers are handed: rows of the users table
SampleUsers ==
  {[NewUser(e, get_password_hash(pw)) EXCEPT !.confirmed = c] :
     e \in Emails, pw \in SignupPasswords, c \in BOOLEAN}

\* the Redis call of a helper that raises, if any does
Faults == {"none", "get", "set", "expire"}

\* how a piece of code ends: it returns value, or it raises; what it printed
Returns(value, printed) == [raised |-> FALSE, value |-> value, printed |-> printed]

Raises(exception) == [raised |-> TRUE, value |-> NoUser, printed |-> exception]

\* the try block of get_cache_user_by_email (lines 24-30)
CacheRead(email, supplied, fault) ==
  IF supplied /\ fault = "get"
  THEN Raises("redis.ConnectionError")
  ELSE LET user_bytes == IF supplied THEN CacheGet(email) ELSE NoEntry IN
       IF ~user_bytes.present
       THEN Returns(NoUser, "")
       ELSE IF user_bytes.value.protocol # "pickle"
       THEN Raises("pickle.UnpicklingError")
       ELSE Returns(pickle_loads(user_bytes.value), "Get from Redis")

\* get_cache_user_by_email with the bug of a try block without its except
get_cache_user_by_email_NoExcept(email, supplied, fault) ==
  IF email = NoneStr THEN Returns(NoUser, "") ELSE CacheRead(email, supplied, fault)

\* get_cache_user_by_email(email, cache): cache is supplied or None
get_cache_user_by_email(email, supplied, fault) ==
  IF email = NoneStr
  THEN Returns(NoUser, "")
  ELSE LET tried == CacheRead(email, supplied, fault) IN
       IF tried.raised THEN Returns(NoUser, "Error Redis read") ELSE tried

\* the try block of update_cache_user (lines 50-53): cache.set drops the time
\* to live of the key, cache.expire sets it
CacheWrite(user, fault) ==
  LET entry == [present |-> TRUE, value |-> pickle_dumps(user), expire_at |-> 0,
                ttl |-> FALSE]
  IN  IF fault = "set"
      THEN [raised |-> TRUE, cache |-> cache]
      ELSE IF fault = "expire"
      THEN [raised |-> TRUE, cache |-> [cache EXCEPT ![user.email] = entry]]
      ELSE [raised |-> FALSE,
            cache |-> [cache EXCEPT ![user.email] =
                         [entry EXCEPT !.expire_at = now + CACHE_TTL, !.ttl = TRUE]]]

\* update_cache_user(user, cache): what it leaves in Redis, and how it ends
update_cache_user(user, supplied, fault) ==
  IF user = NoUser \/ ~supplied
  THEN [raised |-> FALSE, cache |-> cache, printed |-> ""]
  ELSE LET tried == CacheWrite(user, fault) IN
       [raised |-> FALSE, cache |-> tried.cache,
        printed |-> IF tried.raised THEN "Error redis save" ELSE "Save to Redis"]

\* the result of a helper, as the caller sees it
Result(r) ==
  IF r.raised THEN Crash(r.printed)
  ELSE [Response(200, r.printed) EXCEPT !.user = IF "value" \in DOMAIN r THEN r.value ELSE NoUser]

\* a call of get_cache_user_by_email
GetCacheUserByEmail(email, supplied, fault) ==
  /\ Delivered
  /\ last' = [frame |-> Request("get_cache_user_by_email", NoToken, email, NoneStr),
              response |-> Result(get_cache_user_by_email(email, supplied, fault))]
  /\ UNCHANGED <<now, db, cache, issued, pc, local, aside>>

\* a call of update_cache_user
UpdateCacheUser(user, supplied, fault) ==
  /\ Delivered
  /\ LET r == update_cache_user(user, supplied, fault) IN
       /\ cache' = r.cache
       /\ last' = [frame |-> [Request("update_cache_user", NoToken, user.email, NoneStr)
                                EXCEPT !.user = user],
                   response |-> Result(r)]
  /\ UNCHANGED <<now, db, issued, pc, local, aside>>

\* another client of the same Redis writes the key
ForeignSet(email) ==
  /\ Delivered
  /\ cache' = [cache EXCEPT ![email] =
                 [present |-> TRUE, value |-> Garbage, expire_at |-> 0, ttl |-> FALSE]]
  /\ UNCHANGED <<now, db, issued, pc, local, last, aside>>

(* ------------------------------- clock ---------------------------------- *)

\* time passes; Redis drops the keys whose time to live has run out
Tick(d) ==
  /\ Delivered
  /\ now + d \in TimePoints
  /\ now' = now + d
  /\ cache' = [e \in Emails |->
                 IF cache[e].present /\ cache[e].ttl /\ cache[e].expire_at <= now + d
                 THEN NoEntry ELSE cache[e]]
  /\ UNCHANGED <<db, issued, pc, local, last, aside>>

\* the response of the request completed last is delivered to the client
Return ==
  /\ ~Delivered
  /\ last' = NoLast
  /\ UNCHANGED <<now, db, cache, issued, pc, local, aside>>

(* ------------------------- the specifications --------------------------- *)

\* handler p takes a request that registers or confirms an identity
Setup(p) ==
  \/ \E e \in Emails, pw \in SignupPasswords : Signup(p, e, pw)
  \/ \E t \in Presentable : ConfirmedEmail(p, t)

\* handler p takes a request that rotates the stored refresh token
Session(p) ==
  \/ \E e \in Emails, pw \in Passwords : LoginRead(p, e, pw)
  \/ \E t \in Presentable : RefreshRead(p, t)

\* handler p takes a request for a protected route
Protected(p) == \E t \in Presentable : GetCurrentUser(p, t)

\* no request is in flight
Quiet == \A p \in Procs : pc[p] = "idle"

\* One worker (uvicorn.run in main.py): the handlers are coroutines on one
\* event loop and none of them awaits anything that suspends, so a request is
\* served to its end before the next one is taken.
Next ==
  \/ \E p \in Procs : Quiet /\ Setup(p)
  \/ \E p \in Procs, e \in Emails : Quiet /\ RequestEmail(p, e)
  \/ \E p \in Procs : Quiet /\ Session(p)
  \/ \E p \in Procs : Quiet /\ Protected(p)
  \/ \E p \in Procs : LoginWrite(p)
  \/ \E p \in Procs : RefreshCheck(p)
  \/ \E p \in Procs : GetCurrentUserDb(p)
  \/ \E p \in Procs : GetCurrentUserExpire(p)
  \/ \E d \in TimeSteps : Tick(d)
  \/ Return

Spec == Init /\ [][Next]_vars

\* handler p takes a login request
Login(p) == \E e \in Emails, pw \in Passwords : LoginRead(p, e, pw)

\* One worker serving the routes of an identity: signup, confirmation, login,
\* GET /users/me/ and PATCH /users/avatar.
NextUsers ==
  \/ \E p \in Procs : Quiet /\ Setup(p)
  \/ \E p \in Procs : Quiet /\ Login(p)
  \/ \E p \in Procs : Quiet /\ Protected(p)
  \/ \E p \in Procs : LoginWrite(p)
  \/ \E p \in Procs : GetCurrentUserDb(p)
  \/ \E p \in Procs : GetCurrentUserExpire(p)
  \/ \E v \in Versions : UpdateAvatarUser(v)
  \/ \E d \in TimeSteps : Tick(d)
  \/ Return

SpecUsers == Init /\ [][NextUsers]_vars

\* One worker serving the contacts of the identities: signup, confirmation,
\* login, and the routes of the contacts router.
NextContacts ==
  \/ \E p \in Procs : Quiet /\ Setup(p)
  \/ \E p \in Procs : Quiet /\ Login(p)
  \/ \E p \in Procs : Quiet /\ Protected(p)
  \/ \E p \in Procs : LoginWrite(p)
  \/ \E p \in Procs : GetCurrentUserDb(p)
  \/ \E p \in Procs : GetCurrentUserExpire(p)
  \/ \E body \in ContactBodies : CreateContact(body)
  \/ \E id \in ContactIds : GetContact(id)
  \/ \E id \in ContactIds, body \in ContactBodies : UpdateContact(id, body)
  \/ \E id \in ContactIds : RemoveContact(id)
  \/ \E skip \in Skips, limit \in Limits, favorite \in FavoriteFilters :
       GetAllContact(skip, limit, favorite)
  \/ \E skip \in Skips, limit \in Limits, favorite \in FavoriteFilters :
       GetContacts(skip, limit, favorite)
  \/ \E favorite \in BOOLEAN :
       FavoriteUpdate(Body(NoneStr, NoneStr, NoneStr, NoDate, favorite))
  \/ \E query \in Queries : SearchBy(query)
  \/ \E days \in DaysParams, skip \in Skips, limit \in BirthdayLimits,
        today \in Todays :
       SearchBirthdays(days, skip, limit, today)
  \/ Return

SpecContacts == Init /\ [][NextContacts]_vars

\* Several workers on one database: login and refresh_token requests are
\* interleaved at their database accesses.
NextConc ==
  \/ \E p \in Procs : Quiet /\ Setup(p)
  \/ \E p \in Procs : Session(p)
  \/ \E p \in Procs : LoginWrite(p)
  \/ \E p \in Procs : RefreshCheck(p)
  \/ \E d \in TimeSteps : Tick(d)
  \/ Return

SpecConc == Init /\ [][NextConc]_vars

\* The helpers get_cache_user_by_email and update_cache_user, called with any
\* email, user and cache, on a Redis that holds what earlier calls left.
NextHelpers ==
  \/ \E e \in Emails \cup {NoneStr}, supplied \in BOOLEAN, fault \in Faults :
       GetCacheUserByEmail(e, supplied, fault)
  \/ \E u \in SampleUsers \cup {NoUser}, supplied \in BOOLEAN, fault \in Faults :
       UpdateCacheUser(u, supplied, fault)
  \/ \E e \in Emails : ForeignSet(e)
  \/ \E d \in TimeSteps : Tick(d)
  \/ Return

SpecHelpers == Init /\ [][NextHelpers]_vars

\* the handlers other than p are free or serve a get_current_user request
OthersRead(p) ==
  \A q \in Procs \ {p} : pc[q] \in {"idle", "gcu_db", "gcu_expire"}

\* Several workers on one database and one Redis: a get_current_user request
\* is interleaved, at its database and Redis accesses, with the other requests
\* of an identity.
NextConcUsers ==
  \/ \E p \in Procs : Quiet /\ Setup(p)
  \/ \E p \in Procs : OthersRead(p) /\ Login(p)
  \/ \E p \in Procs : OthersRead(p) /\ Protected(p)
  \/ \E p \in Procs : LoginWrite(p)
  \/ \E p \in Procs : GetCurrentUserDb(p)
  \/ \E p \in Procs : GetCurrentUserExpire(p)
  \/ \E v \in Versions : UpdateAvatarUser(v)
  \/ \E d \in TimeSteps : Tick(d)
  \/ Return

SpecConcUsers == Init /\ [][NextConcUsers]_vars

\* Several workers on one database: signup requests are interleaved between
\* the lookup of the email and the insert of the row.
NextConcSignup ==
  \/ \E p \in Procs, e \in Emails, pw \in SignupPasswords : SignupRead(p, e, pw)
  \/ \E p \in Procs : SignupCreate(p)
  \/ \E p \in Procs, t \in Presentable : Quiet /\ ConfirmedEmail(p, t)
  \/ \E p \in Procs : Quiet /\ Login(p)
  \/ \E p \in Procs : LoginWrite(p)
  \/ \E d \in TimeSteps : Tick(d)
  \/ Return

SpecConcSignup == Init /\ [][NextConcSignup]_vars

(* ------------------------------ claims ---------------------------------- *)

\* the request that has just completed, and its response
Req == last.frame

Res == last.response

\* a request completes in this step
Completes == last = NoLast /\ last' # NoLast

\* the completed request is a refresh_token request whose token was verified
\* and whose user was loaded (it reached line 81)
RefreshCompared == Req.op = "refresh_token" /\ Req.user # NoUser

\* C1: a refresh_token request presenting an unexpired refresh token equal to
\* the stored one succeeds: it returns a new access and a new refresh token,
\* and the new refresh token is the stored value.
C1_RefreshRotates ==
  (RefreshCompared /\ Req.token = Req.user.refresh_token)
    => /\ Res.status = 200
       /\ Res.access_token.scope = "access_token"
       /\ Res.refresh_token.scope = "refresh_token"
       /\ db[Req.user.email].refresh_token = Res.refresh_token

C3_MismatchClears ==
  [][/\ (Completes /\ last'.frame.op = "refresh_token"
           /\ last'.frame.user # NoUser
           /\ last'.frame.token # last'.frame.user.refresh_token)
          => /\ last'.response.status = 401
             /\ db'[last'.frame.user.email].refresh_token = NoToken
     /\ \A e \in Emails :
          (db[e] # NoUser /\ db[e].refresh_token = NoToken)
            => /\ \A t \in Presentable :
                    t.sub = e => RefreshResponse(t).status = 401
               /\ db'[e].refresh_token # NoToken
                    => /\ Completes
                       /\ last'.frame.op = "login"
                       /\ last'.response.status = 200
                       /\ last'.frame.email = e
    ]_vars

\* C3 happens: a verified refresh token other than the stored one was
\* presented, the stored value is gone and the answer was 401
C3_Witness ==
  /\ RefreshCompared
  /\ Req.user.refresh_token # NoToken
  /\ Req.token # Req.user.refresh_token
  /\ Res.status = 401
  /\ db[Req.user.email].refresh_token = NoToken

\* C4: every login, refresh_token and get_current_user request ends in success
\* or in 401, never in an unhandled exception.
C4_NeverCrashes ==
  Req.op \in {"login", "refresh_token", "get_current_user"}
    => Res.status \in {200, 401}

\* C5: get_current_user with a valid access token of a stored identity returns
\* that identity, whether or not the cache backend fails.
C5_CacheFailureAbsorbed ==
  (Req.op = "get_current_user"
     /\ decode_access_token(Req.token, now).ok
     /\ get_user_by_email(Req.token.sub) # NoUser)
    => Res.status = 200 /\ Res.user.email = Req.token.sub

\* C6 (with the cache working or not): a token of scope refresh_token is
\* answered 401 by get_current_user and a token of scope access_token is
\* answered 401 by decode_refresh_token and by the refresh_token endpoint,
\* whatever its subject, signature and expiry.
C6_ScopesNotInterchangeable ==
  /\ \A t \in Presentable :
       /\ t.scope = "refresh_token"
            => /\ ~decode_access_token(t, now).ok
               /\ decode_access_token(t, now).status = 401
       /\ t.scope = "access_token"
            => /\ ~decode_refresh_token(t, now).ok
               /\ decode_refresh_token(t, now).status = 401
               /\ RefreshResponse(t).status = 401
  /\ (Req.op = "get_current_user" /\ Req.token.scope = "refresh_token")
       => Res.status = 401
  /\ (Req.op = "refresh_token" /\ Req.token.scope = "access_token")
       => Res.status = 401

\* C6 happens: a signed, unexpired refresh token was presented as the bearer
\* token of a protected route and refused
C6_Witness ==
  /\ Req.op = "get_current_user"
  /\ Req.token \in issued
  /\ Req.token.scope = "refresh_token"
  /\ JwtDecode(Req.token, now).ok
  /\ Res.status = 401

\* the lifetime create_access_token, create_refresh_token and
\* create_email_token give a token of the scope
Lifetime(scope) ==
  CASE scope = "access_token" -> ACCESS_TOKEN_EXPIRE
    [] scope = "refresh_token" -> REFRESH_TOKEN_EXPIRE
    [] OTHER -> EMAIL_TOKEN_EXPIRE

\* the three verifiers yield the subject of token t exactly when its scope is
\* theirs and valid holds, and the first two answer 401 otherwise
VerifiersAgree(t, valid) ==
  /\ decode_access_token(t, now).ok <=> (t.scope = "access_token" /\ valid)
  /\ decode_access_token(t, now).ok => decode_access_token(t, now).email = t.sub
  /\ ~decode_access_token(t, now).ok => decode_access_token(t, now).status = 401
  /\ decode_refresh_token(t, now).ok <=> (t.scope = "refresh_token" /\ valid)
  /\ decode_refresh_token(t, now).ok => decode_refresh_token(t, now).email = t.sub
  /\ ~decode_refresh_token(t, now).ok => decode_refresh_token(t, now).status = 401
  /\ get_email_from_token(t, now).email = t.sub
       <=> (t.scope = "email_token" /\ valid)

\* C7 as stated: a token verifies exactly when its scope is the verifier's, its
\* signature is intact and the current time is before its expiry (issue time
\* plus 15 minutes for access, 7 days for refresh and email tokens).
C7_ValidUntilExpiry ==
  \A t \in Presentable :
    VerifiersAgree(t, t.sig /\ now < t.iat + Lifetime(t.scope))

\* C7 as amended: ... and the current time, in whole seconds, is not after the
\* expiry: the token still verifies during the second in which it expires.  A
\* get_current_user request that presents an access token after that second is
\* answered 401 in the step that verifies it.
C7_ValidThroughExpiry ==
  /\ [](\A t \in Presentable :
          VerifiersAgree(t, t.sig /\ now <= t.iat + Lifetime(t.scope)))
  /\ [][(/\ Completes
         /\ pc' = pc
         /\ last'.frame.op = "get_current_user"
         /\ now > last'.frame.token.iat + ACCESS_TOKEN_EXPIRE)
          => last'.response.status = 401]_vars

\* C7 happens: an access token the program issued was presented more than 15
\* minutes after its issue and refused
C7_Witness ==
  /\ Req.op = "get_current_user"
  /\ Req.token \in issued
  /\ Req.token.scope = "access_token"
  /\ now > Req.token.iat + ACCESS_TOKEN_EXPIRE
  /\ Res.status = 401

\* C8: an email token presented to get_current_user or to refresh_token is
\* answered 401; an access or refresh token presented to confirmed_email sets
\* no confirmed flag and is answered with an error.
C8_NoTokenConfusion ==
  [][Completes =>
       /\ (last'.frame.op \in {"get_current_user", "refresh_token"}
             /\ last'.frame.token.scope = "email_token")
            => last'.response.status = 401
       /\ (last'.frame.op = "confirmed_email"
             /\ last'.frame.token.scope \in {"access_token", "refresh_token"})
            => /\ last'.response.status >= 400
               /\ \A e \in Emails : db'[e].confirmed = db[e].confirmed
    ]_vars

\* C8 happens: a signed, unexpired access or refresh token was presented to
\* confirmed_email and answered with an error
C8_Witness ==
  /\ Req.op = "confirmed_email"
  /\ Req.token \in issued
  /\ Req.token.scope \in {"access_token", "refresh_token"}
  /\ JwtDecode(Req.token, now).ok
  /\ Res.status >= 400

\* the refresh tokens issued for identity e, and the one issued last
RefreshTokens(e) ==
  {t \in issued : t.scope = "refresh_token" /\ t.sub = e}

IsLatest(t) == \A u \in RefreshTokens(t.sub) : u.iat <= t.iat

\* C9: between requests served one after the other, the refresh_token endpoint
\* refuses (401) every refresh token of an identity but at most one, and that
\* one is the token issued last for the identity.
C9_SingleActiveRefreshToken ==
  /\ Quiet =>
       \A e \in Emails :
         \A t \in RefreshTokens(e) :
           RefreshResponse(t).status # 401 => IsLatest(t)
  /\ (Req.op = "refresh_token" /\ Req.token \in issued /\ Res.status # 401)
       => IsLatest(Req.token)

\* C9 happens: of two refresh tokens issued for an identity, the earlier one
\* was presented while still unexpired, and refused
C9_Witness ==
  /\ Req.op = "refresh_token"
  /\ Req.token \in RefreshTokens(Req.token.sub)
  /\ ~IsLatest(Req.token)
  /\ JwtDecode(Req.token, now).ok
  /\ Res.status = 401

\* a refresh_token request presented the token of the login that wrote first
\* in a race, and read as stored the token of the login that wrote last
PresentsSuperseded ==
  /\ RefreshCompared
  /\ race # NoRace
  /\ Req.token = race.first
  /\ Req.user.refresh_token = race.second

\* C10: a login leaves its own refresh token stored, whatever was stored
\* before; after two overlapping logins for one identity, a refresh_token
\* request that presents the token of the login that wrote first is answered
\* 401.
C10_SupersededRefused ==
  /\ (Req.op = "login" /\ Res.status = 200)
       => db[Req.email].refresh_token = Res.refresh_token
  /\ PresentsSuperseded => Res.status = 401

(* ------------------------ the cache of identities ----------------------- *)

\* handler p leaves position at in this step
Leaves(p, at) == pc[p] = at /\ pc'[p] # at

\* a request completes in this step with the response of get_current_user
AnswersCurrentUser ==
  Completes /\ last'.frame.op = "get_current_user"

\* C11: while the Redis calls answer, get_current_user with a valid access
\* token returns the cached identity on a hit and does not read the users
\* table; it reads the table only on a miss, answers 401 if the table has no
\* such user, and otherwise stores the user under its email with a time to live
\* of 900 seconds and returns it.
C11_CacheBeforeStore ==
  [][/\ \A p \in Procs :
          (Leaves(p, "idle") /\ pc'[p] = "gcu_db")
            => ~cache[local'[p].email].present
     /\ (AnswersCurrentUser /\ pc' = pc /\ last'.response.status = 200)
          => /\ cache[last'.frame.email].present
             /\ last'.response.user
                  = pickle_loads(cache[last'.frame.email].value)
             /\ last'.frame.user = NoUser
     /\ \A p \in Procs :
          Leaves(p, "gcu_db")
            => \/ /\ get_user_by_email(local[p].email) = NoUser
                  /\ AnswersCurrentUser
                  /\ last'.response.status = 401
                  /\ cache' = cache
               \/ /\ get_user_by_email(local[p].email) # NoUser
                  /\ AnswersCurrentUser
                  /\ last'.response.status = 500
               \/ /\ get_user_by_email(local[p].email) # NoUser
                  /\ pc'[p] = "gcu_expire"
                  /\ local'[p].user = db[local[p].email]
                  /\ cache'[local[p].email].present
                  /\ pickle_loads(cache'[local[p].email].value)
                       = db[local[p].email]
     /\ \A p \in Procs :
          Leaves(p, "gcu_expire")
            => /\ AnswersCurrentUser
               /\ last'.response.status \in {200, 500}
               /\ last'.response.status = 200
                    => /\ last'.response.user = local[p].user
                       /\ cache'[local[p].email].present
                       /\ cache'[local[p].email].ttl
                       /\ cache'[local[p].email].expire_at = now + CACHE_TTL
                       /\ pickle_loads(cache'[local[p].email].value)
                            = local[p].user
    ]_vars

\* C11 happens: a request was answered from the cache, which an earlier request
\* had filled from the users table
C11_Witness ==
  /\ Req.op = "get_current_user"
  /\ Res.status = 200
  /\ Req.user = NoUser
  /\ Res.user.email = Req.token.sub
  /\ cache[Req.email].ttl

\* the put of get_current_user is complete: set and expire have both answered
PutDone(e) == cache[e].present /\ cache[e].ttl

\* C12: once set and expire have stored an identity under its email, the key
\* holds an identity equal to the one stored, and a get returns it, at every
\* time before 900 seconds have passed since the expire call; at no time after
\* those 900 seconds does the key exist, unless it was put anew.
C12_CacheRoundTrip ==
  /\ [](\A e \in Emails : PutDone(e) => now <= cache[e].expire_at)
  /\ [][/\ \A p \in Procs :
             (Leaves(p, "gcu_expire") /\ last'.response.status = 200)
               => /\ pickle_loads(cache'[local[p].email].value) = local[p].user
                  /\ cache'[local[p].email].expire_at = now + CACHE_TTL
                  /\ cache'[local[p].email].present
                  /\ cache'[local[p].email].ttl
        /\ \A e \in Emails :
             (PutDone(e) /\ now' < cache[e].expire_at) => cache'[e] = cache[e]
        /\ \A e \in Emails :
             (PutDone(e) /\ now' > cache[e].expire_at) => ~cache'[e].present
        /\ (AnswersCurrentUser /\ last'.response.status = 200
              /\ PutDone(last'.frame.email))
             => last'.response.user
                  = pickle_loads(cache[last'.frame.email].value)
       ]_vars

\* C12 happens: a get was answered with the stored identity some time after
\* the put and before its 900 seconds had passed
C12_Witness ==
  /\ Req.op = "get_current_user"
  /\ Res.status = 200
  /\ Req.user = NoUser
  /\ PutDone(Req.email)
  /\ now > cache[Req.email].expire_at - CACHE_TTL
  /\ now < cache[Req.email].expire_at
  /\ Res.user = pickle_loads(cache[Req.email].value)

\* a step that changes the row of an identity the users table already holds
Mutates(e) == db[e] # NoUser /\ db'[e] # db[e]

\* C13: no step that changes a stored identity (update_avatar, confirmed_email,
\* update_token) changes Redis, and get_current_user answers with the cached
\* identity as long as its key exists, also when the stored row has changed
\* since (for example, it returns the old avatar).
C13_MutationsKeepCache ==
  [][/\ (\E e \in Emails : Mutates(e)) => cache' = cache
     /\ (last'.frame.op = "update_avatar" /\ last.frame.op # "update_avatar")
          => cache' = cache
     /\ (AnswersCurrentUser /\ last'.response.status = 200
           /\ cache[last'.frame.email].present)
          => last'.response.user = pickle_loads(cache[last'.frame.email].value)
    ]_vars

\* C13 happens: after the avatar was updated, a request was answered from the
\* cache with the identity as it was before, the old avatar included
C13_Witness ==
  /\ Req.op = "get_current_user"
  /\ Res.status = 200
  /\ Req.user = NoUser
  /\ Res.user.avatar # db[Req.email].avatar
  /\ Res.user = pickle_loads(cache[Req.email].value)

\* C14: every step that changes a stored identity changes one of its fields
\* refresh_token, confirmed, avatar and keeps the others as the users table
\* held them before the step; update_avatar sets the avatar in the stored row
\* of the caller, whatever the identity that get_current_user took from the
\* cache holds.
C14_CacheNeverWritten ==
  [][/\ \A e \in Emails :
          Mutates(e)
            => \/ db'[e] = [db[e] EXCEPT !.refresh_token = db'[e].refresh_token]
               \/ db'[e] = [db[e] EXCEPT !.confirmed = TRUE]
               \/ db'[e] = [db[e] EXCEPT !.avatar = db'[e].avatar]
     /\ (last'.frame.op = "update_avatar" /\ last.frame.op # "update_avatar"
           /\ last'.response.status = 200)
          => /\ db' = [db EXCEPT ![last'.frame.email].avatar
                                   = last'.response.user.avatar]
             /\ last'.response.user = db'[last'.frame.email]
    ]_vars

\* C14 happens: the avatar was updated for a caller whose cached identity was
\* older than the stored row, and the stored refresh token survived
C14_Witness ==
  /\ Req.op = "update_avatar"
  /\ Res.status = 200
  /\ Req.user.refresh_token # db[Req.email].refresh_token
  /\ Res.user = db[Req.email]
  /\ db[Req.email].avatar # Req.user.avatar

(* --------------------------- login and signup --------------------------- *)

\* a login request completes in this step
AnswersLogin == Completes /\ last'.frame.op = "login"

\* C15: a login for a stored identity whose confirmed flag is false is answered
\* 401 "Email not confirmed", whether the password is right or wrong; it hands
\* out no token and leaves the users table, the stored refresh token included,
\* as it was.  Only a login for a confirmed identity goes on to create tokens.
C15_UnconfirmedLoginRefused ==
  [][/\ (AnswersLogin /\ last'.frame.user # NoUser
           /\ ~last'.frame.user.confirmed)
          => /\ last'.response.status = 401
             /\ last'.response.detail = "Email not confirmed"
             /\ last'.response.access_token = NoToken
             /\ last'.response.refresh_token = NoToken
             /\ issued' = issued
             /\ db' = db
     /\ \A p \in Procs :
          (Leaves(p, "idle") /\ pc'[p] = "login_write")
            => /\ db[local'[p].email].confirmed
               /\ local'[p].user = db[local'[p].email]
    ]_vars

\* C15 happens: a login with the right password for an unconfirmed identity
\* was refused
C15_Witness ==
  /\ Req.op = "login"
  /\ Req.user # NoUser
  /\ ~Req.user.confirmed
  /\ verify_password(Req.password, Req.user.password)
  /\ Res.status = 401
  /\ Res.detail = "Email not confirmed"

\* C16: login answers a recognized email with a wrong password exactly as it
\* answers an unrecognized email, status and detail alike, whatever the
\* confirmed flag of the identity; so every failed login has the answer of an
\* unrecognized email.
C16_FailedLoginsAlike ==
  /\ \A e \in Emails, pw \in Passwords :
       (db[e] # NoUser /\ ~verify_password(pw, db[e].password))
         => LoginDenial(db[e], pw) = LoginDenial(NoUser, pw)
  /\ (Req.op = "login" /\ Res.status = 401)
       => Res = LoginDenial(NoUser, Req.password)

\* a signup request completes in this step
AnswersSignup == Completes /\ last'.frame.op = "signup"

\* C17: after a signup answered 201 for email e and password p, the users
\* table holds one row with email e; the row is unconfirmed, has no refresh
\* token, and its password is a hash that verifies p and is not p.
C17_SignupStoresHashedUnconfirmed ==
  [][(AnswersSignup /\ last'.response.status = 201)
       => LET e == last'.frame.email
              p == last'.frame.password
          IN  /\ db[e] = NoUser
              /\ Cardinality({k \in Emails : db'[k].email = e}) = 1
              /\ db'[e].email = e
              /\ db'[e].confirmed = FALSE
              /\ db'[e].refresh_token = NoToken
              /\ verify_password(p, db'[e].password)
              /\ db'[e].password # p
              /\ last'.response.user = db'[e]
    ]_vars

\* C17 happens: a signup was answered 201 and its row is in the users table
C17_Witness ==
  /\ Req.op = "signup"
  /\ Res.status = 201
  /\ db[Req.email] = Res.user
  /\ db[Req.email].password # Req.password

\* C18: a signup whose email belongs to a stored identity is answered 409,
\* leaves the users table as it was and mails no confirmation token.
C18_DuplicateSignupConflict ==
  [][(AnswersSignup /\ db[last'.frame.email] # NoUser)
       => /\ last'.response.status = 409
          /\ db' = db
          /\ issued' = issued
    ]_vars

\* C18 happens: a signup for the email of a confirmed identity with a stored
\* refresh token was answered 409
C18_Witness ==
  /\ Req.op = "signup"
  /\ Res.status = 409
  /\ db[Req.email].confirmed
  /\ db[Req.email].refresh_token # NoToken

(* ------------------------------- contacts ------------------------------- *)

\* a contacts route answers in this step with the response of op
AnswersContact(op) ==
  last.frame.op = "get_current_user" /\ last'.frame.op = op

\* the contacts of identity user with this email, with this id
OwnByEmail(user, email) ==
  {c \in contacts.rows : c.user = user.email /\ c.email = email}

OwnById(user, contact_id) ==
  {c \in contacts.rows : c.user = user.email /\ c.id = contact_id}

\* C19: create_contact with an email that a contact of the caller has is
\* answered 409 and leaves the contacts table as it was; with an email that no
\* contact of the caller has, whether or not a contact of another user has it,
\* it is answered 201 and inserts one contact of the caller with that email.
C19_OwnDuplicateConflict ==
  [][AnswersContact("create_contact")
       => LET user == last'.frame.user
              email == last'.frame.body.email
              contact == last'.response.contact
          IN  /\ OwnByEmail(user, email) # {}
                   => /\ last'.response.status = 409
                      /\ contacts' = contacts
              /\ OwnByEmail(user, email) = {}
                   => /\ last'.response.status = 201
                      /\ contact \notin contacts.rows
                      /\ contacts'.rows = contacts.rows \cup {contact}
                      /\ contact.email = email
                      /\ contact.user = user.email
    ]_vars

\* C19 happens: two users each have a contact with the same email, and a
\* further create_contact with that email by one of them was answered 409
C19_Witness ==
  /\ Req.op = "create_contact"
  /\ Res.status = 409
  /\ OwnByEmail(Req.user, Req.body.email) # {}
  /\ \E c \in contacts.rows :
       c.email = Req.body.email /\ c.user # Req.user.email

\* C20: get_contact, update_contact and remove_contact answer a contact id that
\* no contact of the caller has with 404 "Not found" and nothing else, be the id
\* that of no contact or that of another user's contact, and leave the contacts
\* table as it was.
C20_ForeignAsAbsent ==
  [][(\E op \in {"get_contact", "update_contact", "remove_contact"} :
        AnswersContact(op))
       => (OwnById(last'.frame.user, last'.frame.contact_id) = {}
             => /\ last'.response = Response(404, "Not found")
                /\ contacts' = contacts)
    ]_vars

\* C20 happens: the removal of another user's contact was asked for, answered
\* 404, and the contact is still there
C20_Witness ==
  /\ Req.op = "remove_contact"
  /\ Res = Response(404, "Not found")
  /\ \E c \in contacts.rows :
       c.id = Req.contact_id /\ c.user # Req.user.email

(* C21 ---------------------------------------------------------------------- *)

\* the inputs for which get_cache_user_by_email has nothing to return
NothingCached(email, supplied, fault) ==
  \/ email = NoneStr
  \/ ~supplied
  \/ fault = "get"
  \/ ~cache[email].present
  \/ cache[email].value = Garbage

\* C21: the cache helpers never raise: get_cache_user_by_email returns None
\* when the key is absent or has expired, when no cache is supplied, when the
\* backend raises and when the bytes do not deserialize; update_cache_user
\* returns normally when set or expire raises.
C21_HelpersNeverRaise ==
  /\ \A email \in Emails \cup {NoneStr}, supplied \in BOOLEAN, fault \in Faults :
       LET r == get_cache_user_by_email(email, supplied, fault) IN
         /\ ~r.raised
         /\ NothingCached(email, supplied, fault) => r.value = NoUser
  /\ \A user \in SampleUsers \cup {NoUser}, supplied \in BOOLEAN, fault \in Faults :
       ~update_cache_user(user, supplied, fault).raised
  /\ Req.op \in {"get_cache_user_by_email", "update_cache_user"} => Res.status = 200

\* get_cache_user_by_email has found bytes that are no pickle and returned None
C21_Witness ==
  /\ Req.op = "get_cache_user_by_email"
  /\ Req.email \in Emails
  /\ cache[Req.email].value = Garbage
  /\ Res.detail = "Error Redis read"
  /\ Res.status = 200
  /\ Res.user = NoUser
  /\ \E e \in Emails : cache[e].present /\ ~cache[e].ttl /\ cache[e].value # Garbage

(* C22 ---------------------------------------------------------------------- *)

\* the login just answered was for a confirmed identity that signed up with
\* password p
LoginOfConfirmed(p) ==
  /\ AnswersLogin
  /\ last'.frame.user # NoUser
  /\ last'.frame.user.confirmed
  /\ last'.frame.user.password = get_password_hash(p)

\* C22: after a signup with password p and the confirmation of the email, a
\* login with p succeeds and returns an access token and a refresh token of
\* the identity; a login with any other password is refused with 401 and no
\* token is issued.
C22_LoginAfterConfirmation ==
  [][\A p \in SignupPasswords :
       LoginOfConfirmed(p) =>
         IF last'.frame.password = p
         THEN /\ last'.response.status = 200
              /\ last'.response.access_token.scope = "access_token"
              /\ last'.response.refresh_token.scope = "refresh_token"
              /\ last'.response.access_token.sub = last'.frame.email
              /\ last'.response.refresh_token.sub = last'.frame.email
              /\ last'.response.access_token.sig
              /\ last'.response.refresh_token.sig
              /\ {last'.response.access_token, last'.response.refresh_token}
                   \subseteq issued'
         ELSE /\ last'.response.status = 401
              /\ last'.response.access_token = NoToken
              /\ last'.response.refresh_token = NoToken
              /\ issued' = issued
              /\ db' = db
    ]_vars

\* a confirmed identity was refused with a wrong password after it had logged
\* in with the right one
C22_Witness ==
  /\ Req.op = "login"
  /\ Req.user.confirmed
  /\ Req.password \notin SignupPasswords
  /\ Res.status = 401
  /\ Req.user.refresh_token.scope = "refresh_token"

(* C23 ---------------------------------------------------------------------- *)

\* C23: GET /contacts/all is served only to an identity whose role is admin or
\* moderator; an identity of role user is denied, and gets no contact of
\* another user.
C23_AllContactsForStaff ==
  [][AnswersContact("get_all_contact") =>
       LET current_user == last.response.user IN
         IF Role(current_user) \in {"admin", "moderator"}
         THEN /\ last'.response.status = 200
              /\ last'.response.contacts \subseteq contacts.rows
         ELSE /\ last'.response.status = 403
              /\ last'.response.contacts = {}
              /\ last'.response.contact = NoContact
    ]_vars

\* an identity of role user was denied the list while another user had a
\* contact
C23_Witness ==
  /\ Req.op = "get_all_contact"
  /\ Role(Req.user) = "user"
  /\ Res.status = 403
  /\ \E c \in contacts.rows : c.user # Req.user.email

(* C24 ---------------------------------------------------------------------- *)

\* token fails verification at time t: a bad signature, an expiry that has
\* passed, a scope other than access_token, or no subject
FailsVerification(token, t) ==
  \/ ~token.sig
  \/ token.exp < t
  \/ token.scope # "access_token"
  \/ token.sub = NoneStr

\* C24: a token that fails verification makes get_current_user answer 401
\* before it reads the cache, reads the users table or writes the cache: the
\* cache and the table are as they were, and no user was loaded.
C24_RefusedBeforeAnyAccess ==
  [][/\ (AnswersCurrentUser /\ pc' = pc
           /\ FailsVerification(last'.frame.token, now))
          => /\ last'.response.status = 401
             /\ last'.response.detail = "Could not validate credentials"
             /\ last'.response.user = NoUser
             /\ last'.frame.user = NoUser
             /\ cache' = cache
             /\ db' = db
     /\ \A p \in Procs :
          (pc[p] = "idle" /\ pc'[p] = "gcu_db")
            => ~FailsVerification(local'[p].token, now)
    ]_vars

\* a signed refresh token was refused while the cache held its subject
C24_Witness ==
  /\ Req.op = "get_current_user"
  /\ Res.status = 401
  /\ Req.token.sig
  /\ Req.token.scope = "refresh_token"
  /\ Req.token.exp >= now
  /\ cache[Req.token.sub].present

(* C26 ---------------------------------------------------------------------- *)

\* no put of get_current_user is between its set and its expire
NoPutPending == \A p \in Procs : pc[p] # "gcu_expire"

\* C26: in every reachable state, those reached when Redis fails between the
\* set and the expire included, every entry present in the cache carries an
\* expiry of at most 900 seconds from its write; none is without an expiry.
C26_EveryEntryExpires ==
  NoPutPending =>
    \A e \in Emails :
      cache[e].present => /\ cache[e].ttl
                          /\ cache[e].expire_at <= now + CACHE_TTL

(* C25 ---------------------------------------------------------------------- *)

\* the avatar of e in the users table was committed more than 900 seconds ago
AvatarSettled(e) ==
  \E v \in TimePoints :
    /\ db[e].avatar = get_url_for_avatar(generate_name_avatar(e), v)
    /\ now > v + CACHE_TTL

\* C25: however get_current_user requests and a mutation of an identity are
\* interleaved, no get_current_user request that starts more than 900 seconds
\* after the mutation was committed returns the identity as it was before the
\* mutation.  (A request that misses the cache reads the users table after it
\* has started; the formula is about the requests answered from an entry that
\* carries a time to live.)
C25_StaleAtMostTtl ==
  [][(/\ AnswersCurrentUser
      /\ pc' = pc
      /\ last'.response.status = 200
      /\ cache[last'.frame.email].ttl
      /\ AvatarSettled(last'.frame.email))
       => last'.response.user.avatar = db[last'.frame.email].avatar
    ]_vars

(* C27 ---------------------------------------------------------------------- *)

\* the subject that a signed, unexpired token yields as a confirmation token:
\* None unless its scope is email_token
ConfirmationSubject(token) ==
  IF token.scope = "email_token" THEN token.sub ELSE NoneStr

\* C27: confirmed_email with a valid token of an unconfirmed identity sets its
\* confirmed flag; repeated for a confirmed identity it answers "Your email is
\* already confirmed" and changes nothing; a token whose subject has no stored
\* identity gets 400; and no operation turns a confirmed flag from true to
\* false.
C27_ConfirmationIdempotent ==
  [][/\ (/\ Completes
         /\ last'.frame.op = "confirmed_email"
         /\ last'.frame.token.sig
         /\ last'.frame.token.exp >= now)
          => LET email == ConfirmationSubject(last'.frame.token) IN
             IF email \notin Emails \/ db[email] = NoUser
             THEN /\ last'.response.status = 400
                  /\ db' = db
             ELSE IF db[email].confirmed
             THEN /\ last'.response.status = 200
                  /\ last'.response.detail = "Your email is already confirmed"
                  /\ db' = db
             ELSE /\ last'.response.status = 200
                  /\ last'.response.detail = "Email confirmed"
                  /\ db' = [db EXCEPT ![email].confirmed = TRUE]
     /\ \A e \in Emails : db[e].confirmed => db'[e].confirmed
    ]_vars

\* a confirmation was repeated for an identity that has logged in since
C27_Witness ==
  /\ Req.op = "confirmed_email"
  /\ Res.detail = "Your email is already confirmed"
  /\ db[Req.token.sub].confirmed
  /\ db[Req.token.sub].refresh_token # NoToken

(* C28 ---------------------------------------------------------------------- *)

\* C28: request_email schedules a confirmation e-mail exactly when the
\* identity exists and is not confirmed; for a confirmed identity it answers
\* "Your email is already confirmed"; for an unknown email it gives the answer
\* it gives for an unconfirmed identity; and it never changes the users table.
C28_RequestEmailOnlyUnconfirmed ==
  [][(Completes /\ last'.frame.op = "request_email")
       => LET email == last'.frame.email
              unconfirmed == db[email] # NoUser /\ ~db[email].confirmed
          IN  /\ last'.response.mail # NoneStr <=> unconfirmed
              /\ unconfirmed
                   => /\ last'.response.mail = email
                      /\ create_email_token(email, now) \in issued'
              /\ ~unconfirmed => issued' = issued
              /\ IF db[email] # NoUser /\ db[email].confirmed
                 THEN last'.response.detail = "Your email is already confirmed"
                 ELSE [last'.response EXCEPT !.mail = NoneStr]
                        = Response(200, "Check your email for confirmation.")
              /\ db' = db
    ]_vars

\* an unconfirmed identity asked for its e-mail again, after its first one
\* had been issued at another time
C28_Witness ==
  /\ Req.op = "request_email"
  /\ Res.mail = Req.email
  /\ ~db[Req.email].confirmed
  /\ \E t \in issued : t.scope = "email_token" /\ t.sub = Req.email /\ t.iat # now

(* C29 ---------------------------------------------------------------------- *)

\* the days on which a birthday is kept in year: its day and month, and for a
\* birthday of 29 February in a year without one, 28 February or 1 March
Observances(birthday, year) ==
  IF IsDate(Date(year, birthday.month, birthday.day))
  THEN {Date(year, birthday.month, birthday.day)}
  ELSE {Date(year, 2, 28), Date(year, 3, 1)}

\* the numbers of days from today to the next birthday
DaysToNext(birthday, today) ==
  LET ahead(year) == {toordinal(d) - toordinal(today) : d \in Observances(birthday, year)}
  IN  IF \E n \in ahead(today.year) : n >= 0
      THEN {n \in ahead(today.year) : n >= 0}
      ELSE ahead(today.year + 1)

\* C29: search_birthday returns exactly the caller's contacts whose next
\* birthday is 0 to days days after today, whatever the date and the birthday:
\* birthdays early in the next year when today is near the end of the year,
\* and birthdays on 29 February; the route answers 404 when there are none.
C29_NextBirthdayWindow ==
  [][(/\ AnswersContact("search_birthdays")
      /\ last'.frame.skip = 0
      /\ last'.frame.limit >= Cardinality(contacts.rows))
       => LET own == {c \in contacts.rows :
                        c.user = last'.frame.user.email /\ c.birthday # NoDate}
              window == 0 .. last'.frame.days
              due == {c \in own :
                        DaysToNext(c.birthday, last'.frame.today) \subseteq window}
              near == {c \in own :
                         DaysToNext(c.birthday, last'.frame.today) \cap window # {}}
          IN  /\ last'.response.status \in {200, 404}
              /\ due \subseteq last'.response.contacts
              /\ last'.response.contacts \subseteq near
              /\ last'.response.status = 404 <=> last'.response.contacts = {}
    ]_vars

(* C30 ---------------------------------------------------------------------- *)

\* the contact operations other than GET /contacts/all
OwnerOps ==
  {"get_contacts", "get_contact", "create_contact", "update_contact",
   "favorite_update", "remove_contact", "search_by", "search_birthdays"}

\* C30: but for GET /contacts/all, every contact operation (list, get by id,
\* create, update, favorite update, delete, search, birthday search) returns
\* and modifies only contacts owned by the caller; the owner of a contact never
\* changes, and no request of a user changes or deletes a contact of another.
C30_OnlyOwnContacts ==
  [][/\ \A op \in OwnerOps :
          AnswersContact(op) =>
            LET caller == last.response.user.email IN
              /\ last'.response.contact # NoContact
                   => last'.response.contact.user = caller
              /\ \A c \in last'.response.contacts : c.user = caller
              /\ {c \in contacts.rows : c.user # caller}
                   = {c \in contacts'.rows : c.user # caller}
     /\ \A c \in contacts.rows, d \in contacts'.rows :
          c.id = d.id => c.user = d.user
    ]_vars

\* a user listed its contacts while another user had one, and got only its own
C30_Witness ==
  /\ Req.op = "get_contacts"
  /\ Res.status = 200
  /\ Res.contacts # {}
  /\ \E c \in contacts.rows : c.user # Req.user.email

(* C31 ---------------------------------------------------------------------- *)

\* C31: after any sequence of create_contact, update_contact, favorite_update
\* and remove_contact requests, no two contacts of one user have the same
\* email.
C31_OwnEmailsUnique ==
  \A c, d \in contacts.rows :
    (c.user = d.user /\ c.email = d.email) => c.id = d.id

(* C32 ---------------------------------------------------------------------- *)

\* C32: removing a contact is permitted only to an identity of role admin, the
\* role set allowed_operation_remove; a remove_contact request of an identity
\* of role user or moderator is denied and deletes nothing.
C32_RemoveOnlyAdmin ==
  [][(/\ AnswersContact("remove_contact")
      /\ Role(last.response.user) \notin allowed_operation_remove)
       => /\ last'.response.status = 403
          /\ contacts' = contacts
    ]_vars

(* C33 ---------------------------------------------------------------------- *)

\* a token that decode_refresh_token refuses at time t: a signature not made
\* with the key, an expiry in the past, or a scope other than refresh_token
FailsRefreshVerification(token, t) ==
  \/ ~token.sig
  \/ token.exp < t
  \/ token.scope # "refresh_token"

\* the refresh token stored for each identity
StoredRefreshTokens(table) == [e \in Emails |-> table[e].refresh_token]

\* a refresh_token request is answered by its verification (lines 78-79)
RefreshRefused ==
  Completes /\ last'.frame.op = "refresh_token" /\ pc' = pc

\* handler p passes the verification of a refresh_token request
RefreshAdmitted(p) == pc[p] = "idle" /\ pc'[p] = "refresh_check"

\* a refresh_token request presenting token is verified in this step
RefreshVerifies(token) ==
  \/ RefreshRefused /\ last'.frame.token = token
  \/ \E p \in Procs : RefreshAdmitted(p) /\ local'[p].token = token

\* C33: a refresh_token request whose token fails verification is answered 401
\* and leaves every stored refresh token as it was; a refresh_token request
\* changes a stored refresh token only when its token is a signed token of the
\* refresh scope that differs from the stored value, and then it clears it.
C33_UnverifiedLeavesTokens ==
  [][/\ \A token \in Presentable :
          (RefreshVerifies(token) /\ FailsRefreshVerification(token, now))
            => /\ RefreshRefused
               /\ last'.response.status = 401
               /\ StoredRefreshTokens(db') = StoredRefreshTokens(db)
     /\ (/\ Completes /\ last'.frame.op = "refresh_token"
         /\ StoredRefreshTokens(db') # StoredRefreshTokens(db))
          => LET token == last'.frame.token IN
             /\ token.sig
             /\ token.scope = "refresh_token"
             /\ db[token.sub].refresh_token # token
             /\ db' = [db EXCEPT ![token.sub].refresh_token = NoToken]
    ]_vars

\* a signed, unexpired access token was presented to refresh_token while a
\* refresh token is stored for its subject: answered 401, the value still stored
C33_Witness ==
  /\ Req.op = "refresh_token"
  /\ Req.token.sig
  /\ Req.token.exp >= now
  /\ Req.token.scope = "access_token"
  /\ Res.status = 401
  /\ db[Req.token.sub].refresh_token # NoToken

(* C34 ---------------------------------------------------------------------- *)

\* C34: every identity that get_current_user returns, from the cache or from
\* the users table, has confirmed = true.
C34_CurrentUserConfirmed ==
  (Req.op = "get_current_user" /\ Res.status = 200) => Res.user.confirmed

\* get_current_user returned an identity that it found in the cache
C34_Witness ==
  /\ Req.op = "get_current_user"
  /\ Res.status = 200
  /\ Res.user.email = Req.token.sub
  /\ Req.user = NoUser
  /\ cache[Req.token.sub].present

(* C35 ---------------------------------------------------------------------- *)

\* C35: of two signup requests for one email that run concurrently, at most one
\* creates an identity and the other is rejected with 409: a signup request
\* that is answered while the users table holds a row with its email is
\* answered 409 and writes nothing, and any other one is answered 201 and
\* inserts the row; the table never holds two rows with one email.
C35_ConcurrentSignupConflict ==
  [][(Completes /\ last'.frame.op = "signup")
       => LET email == last'.frame.email IN
          IF db[email] # NoUser
          THEN /\ last'.response.status = 409
               /\ db' = db
          ELSE /\ last'.response.status = 201
               /\ db'[email] # NoUser
               /\ \A e \in Emails \ {email} : db'[e] = db[e]
    ]_vars

====
